---- MODULE Spec2Model ----
(***************************************************************************)
(* Dumsor AI (src/app.py): a Streamlit chat page in front of the Cortex    *)
(* Analyst endpoint.  Streamlit executes the script top to bottom once per *)
(* user interaction; st.session_state.messages is the only state that      *)
(* survives from one script run to the next.                               *)
(*                                                                         *)
(* Strings whose content matters (prompts, narrative text) are sequences   *)
(* of one-character strings, so that concatenation and strip() are         *)
(* computed, not assumed.  A Python dict is a function from its keys.      *)
(*                                                                         *)
(* Environment assumptions: one browser session; the user interacts only   *)
(* when no script run is in progress; the warehouse is reachable, so       *)
(* Session.create() fails only for lack of a login name or password.       *)
(***************************************************************************)
EXTENDS Integers, Sequences, FiniteSets, TLC

VARIABLES
    secrets,        \* optional keys present in st.secrets["snowflake"]
    initialised,    \* "messages" in st.session_state
    messages,       \* st.session_state.messages
    pc,             \* "start", "idle", "waiting" (request on the wire), "aborted"
    screen,         \* chat bubbles rendered by the current script run
    requests,       \* payloads posted to the endpoint, in order
    reply,          \* what the last post came back with
    outcome,        \* how the try block of the last submission ended
    answer_text,    \* answer_text of the last submission
    before,         \* history at the start of the last submission
    served,         \* per stored analyst turn, the content the service emitted
    failed          \* history positions of user turns whose round trip failed

vars == <<secrets, initialised, messages, pc, screen, requests, reply,
          outcome, answer_text, before, served, failed>>

-----------------------------------------------------------------------------
(* Bounds *)

\* user submissions per session
MaxSubmits == 2
\* content items per reply of the service (SpecParse)
MaxItems == 3

-----------------------------------------------------------------------------
(* Values *)

NL == "\n"
Whitespace == {" ", NL}

None == <<"N", "o", "n", "e">>
UnknownError == <<"U">>

Prompts == {<<"p">>, <<"q">>}
Payloads == {<<"a">>, <<"b">>, <<" ">>}
ErrorMessages == {<<"d">>}
FailStatuses == {401, 500}

OptionalKeys == {"user", "password", "role", "warehouse", "database", "schema"}

\* st.secrets["snowflake"]: the optional keys that are configured.
SecretConfigs ==
    {OptionalKeys, {}} \cup {OptionalKeys \ {k} : k \in {"user", "role"}}

MODEL_FILE == <<"m">>

TextItem(s) == [type |-> "text", text |-> s]
SqlItem(s) == [type |-> "sql", statement |-> s]
\* a content item without a "type" key
UntypedItem == [text |-> <<"a">>]

Items == {TextItem(s) : s \in Payloads} \cup {SqlItem(<<"s">>), UntypedItem}
Contents == UNION {[1..n -> Items] : n \in 0..MaxItems}

\* The replies a whole session is explored with.
TurnContents ==
    {<<>>, <<TextItem(<<"a">>)>>, <<TextItem(<<" ">>)>>, <<SqlItem(<<"s">>)>>,
     <<TextItem(<<"a">>), SqlItem(<<"s">>)>>, <<UntypedItem>>}

ErrorObjects == {[code |-> "c", message |-> m] : m \in ErrorMessages}
                    \cup {[code |-> "c"]}

WithKey(d, k, v) == (k :> v) @@ d

\* shape (b): {message: {role, content}}
SingleMessage(c) ==
    [message |-> [role |-> "analyst", content |-> c], request_id |-> <<"r">>]
\* shape (a): {messages: [{role, content}]}
MessagesArray(c) ==
    [messages |-> <<[role |-> "analyst", content |-> c]>>, request_id |-> <<"r">>]
\* shape (c) alone
ErrorOnly(e) == [error |-> e, request_id |-> <<"r">>]
\* a reply object without content
NoContent == [message |-> [role |-> "analyst"], request_id |-> <<"r">>]

Bodies(cs) ==
    LET plain == {SingleMessage(c) : c \in cs}
                    \cup {MessagesArray(c) : c \in cs}
                    \cup {NoContent}
    IN  plain
          \cup {WithKey(b, "error", e) : b \in plain, e \in ErrorObjects}
          \cup {ErrorOnly(e) : e \in ErrorObjects}
          \cup {WithKey(ErrorOnly(e), "debug_info", <<"i">>) : e \in ErrorObjects}
          \cup {[request_id |-> <<"r">>]}

\* What comes back from requests.post: an HTTP response, or nothing.
Replies(cs) ==
    {[kind |-> "network", status |-> 0, json |-> FALSE, body |-> <<>>]}
      \cup {[kind |-> "http", status |-> s, json |-> FALSE, body |-> <<"x">>]
                : s \in FailStatuses \cup {200}}
      \cup {[kind |-> "http", status |-> 200, json |-> TRUE, body |-> b]
                : b \in Bodies(cs)}

NoReply == [kind |-> "none", status |-> 0, json |-> FALSE, body |-> <<>>]

-----------------------------------------------------------------------------
(* Helpers *)

Get(d, k, default) == IF k \in DOMAIN d THEN d[k] ELSE default

IsPrefix(s, t) == Len(s) <= Len(t) /\ \A i \in 1..Len(s) : s[i] = t[i]

Last(s) == s[Len(s)]

RECURSIVE LStrip(_)
LStrip(s) == IF s # <<>> /\ Head(s) \in Whitespace THEN LStrip(Tail(s)) ELSE s

RECURSIVE RStrip(_)
RStrip(s) ==
    IF s # <<>> /\ Last(s) \in Whitespace
    THEN RStrip(SubSeq(s, 1, Len(s) - 1))
    ELSE s

\* str.strip()
Strip(s) == RStrip(LStrip(s))

-----------------------------------------------------------------------------
(* Startup *)

connection_params(s) ==
    [k \in OptionalKeys |-> IF k \in s THEN <<"v">> ELSE None]

\* Session.builder.configs(connection_params).create(): the connector
\* refuses to log in without a user name or without a password.
SessionCreateRaises(s) ==
    LET p == connection_params(s)
    IN  p["user"] = None \/ p["password"] = None

-----------------------------------------------------------------------------
(* ask_analyst *)

SemanticModelFile(f) == IF f # <<>> /\ Head(f) = "@" THEN f ELSE <<"@">> \o f

Payload(msgs) ==
    [messages |-> msgs,
     semantic_model_file |-> SemanticModelFile(MODEL_FILE),
     debug |-> TRUE]

\* resp.raise_for_status()
RaisesForStatus(status) == 400 <= status /\ status < 600

\* The exception ask_analyst ends with, or "none" when it returns resp.json().
AskAnalystRaises(r) ==
    IF r.kind = "network" THEN "Exception"
    ELSE IF RaisesForStatus(r.status) THEN "HTTPError"
    ELSE IF ~r.json THEN "Exception"
    ELSE "none"

\* as SendRequest, but the post is repeated
SendRequestTwice(reqs, msgs) == Append(Append(reqs, Payload(msgs)), Payload(msgs))

SendRequest(reqs, msgs) == Append(reqs, Payload(msgs))

-----------------------------------------------------------------------------
(* Script: history *)

\* as InitMessages, but without the "not in st.session_state" test
InitMessagesAlways(present, msgs) == <<>>

InitMessages(present, msgs) == IF ~present THEN <<>> ELSE msgs

UserMsg(prompt) == [role |-> "user", content |-> <<TextItem(prompt)>>]

Part(k, t, st) == [kind |-> k, text |-> t, status |-> st]
Bubble(r, ps) == [role |-> r, parts |-> ps]

\* Stored content items always carry "type": an untyped item raises in the
\* reply handler before the turn is stored.
RECURSIVE ReplayParts(_)
ReplayParts(content) ==
    IF content = <<>> THEN <<>>
    ELSE LET item == Head(content)
         IN  (IF item.type = "text"
              THEN <<Part("markdown", item.text, 0)>>
              ELSE <<>>) \o ReplayParts(Tail(content))

Replay(msgs) ==
    [i \in 1..Len(msgs) |-> Bubble(msgs[i].role, ReplayParts(msgs[i].content))]

-----------------------------------------------------------------------------
(* Script: reply handler *)

\* as ParseItems, but each text is put in front of answer_text
RECURSIVE ParseItemsPrepend(_, _, _)
ParseItemsPrepend(content, i, acc) ==
    IF i > Len(content) THEN [raised |-> FALSE, text |-> acc]
    ELSE LET item == content[i]
         IN  IF "type" \notin DOMAIN item THEN [raised |-> TRUE, text |-> acc]
             ELSE IF item.type = "text"
                  THEN IF "text" \notin DOMAIN item
                       THEN [raised |-> TRUE, text |-> acc]
                       ELSE ParseItemsPrepend(content, i + 1, item.text \o <<NL>> \o acc)
                  ELSE ParseItemsPrepend(content, i + 1, acc)

RECURSIVE ParseItems(_, _, _)
ParseItems(content, i, acc) ==
    IF i > Len(content) THEN [raised |-> FALSE, text |-> acc]
    ELSE LET item == content[i]
         IN  IF "type" \notin DOMAIN item THEN [raised |-> TRUE, text |-> acc]
             ELSE IF item.type = "text"
                  THEN IF "text" \notin DOMAIN item
                       THEN [raised |-> TRUE, text |-> acc]
                       ELSE ParseItems(content, i + 1, acc \o item.text \o <<NL>>)
                  ELSE ParseItems(content, i + 1, acc)

\* as ParseNarrative, but result["message"] is read without the "in" test
ParseNarrativeUnguarded(result) ==
    IF "message" \in DOMAIN result /\ "content" \in DOMAIN result.message
    THEN ParseItems(result.message.content, 1, <<>>)
    ELSE [raised |-> TRUE, text |-> <<>>]

ParseNarrative(result) ==
    IF "message" \in DOMAIN result
    THEN IF "content" \notin DOMAIN result.message
         THEN [raised |-> TRUE, text |-> <<>>]
         ELSE ParseItems(result.message.content, 1, <<>>)
    ELSE [raised |-> FALSE, text |-> <<>>]

DebugParts(result) ==
    IF "debug_info" \in DOMAIN result THEN <<Part("debug", <<>>, 0)>> ELSE <<>>

ErrorParts(result) ==
    IF "error" \in DOMAIN result
    THEN <<Part("error_app", Get(result.error, "message", UnknownError), 0)>>
    ELSE <<>>

NarrativeParts(text) ==
    IF Strip(text) # <<>>
    THEN <<Part("markdown", text, 0)>>
    ELSE <<Part("warning", <<>>, 0)>>

SavedContent(result) ==
    IF "message" \in DOMAIN result
    THEN Get(result.message, "content", <<>>)
    ELSE <<>>

\* as AnalystMsg, but with the role of user_msg
AnalystMsgAsUser(result) ==
    [role |-> "user",
     content |-> SavedContent(result),
     request_id |-> Get(result, "request_id", None)]

AnalystMsg(result) ==
    [role |-> "analyst",
     content |-> SavedContent(result),
     request_id |-> Get(result, "request_id", None)]

SaveAnalystMsg(msgs, result) == Append(msgs, AnalystMsg(result))

\* as OnFailure, but the turn that got no answer is taken back
OnFailureRollback(msgs) == SubSeq(msgs, 1, Len(msgs) - 1)

\* The except clauses only render: the history is left as it is.
OnFailure(msgs) == msgs

\* The try block and its except clauses, for one reply of the transport.
Handle(r) ==
    LET exc == AskAnalystRaises(r) IN
    IF exc = "HTTPError"
    THEN [outcome |-> "http_error", saved |-> FALSE, text |-> <<>>,
          parts |-> <<Part("error_http", r.body, r.status)>>]
    ELSE IF exc = "Exception"
    THEN [outcome |-> "exception", saved |-> FALSE, text |-> <<>>,
          parts |-> <<Part("error_unexpected", <<>>, 0)>>]
    ELSE LET result == r.body
             shown == DebugParts(result) \o ErrorParts(result)
             parsed == ParseNarrative(result)
         IN  IF parsed.raised
             THEN [outcome |-> "exception", saved |-> FALSE, text |-> parsed.text,
                   parts |-> shown \o <<Part("error_unexpected", <<>>, 0)>>]
             ELSE [outcome |-> "ok", saved |-> TRUE, text |-> parsed.text,
                   parts |-> shown \o NarrativeParts(parsed.text)]

\* The content items the service put in a reply, whatever the envelope.
RECURSIVE EmittedOf(_)
EmittedOf(ms) ==
    IF ms = <<>> THEN <<>>
    ELSE Get(Head(ms), "content", <<>>) \o EmittedOf(Tail(ms))

EmittedContent(result) ==
    IF "messages" \in DOMAIN result THEN EmittedOf(result.messages)
    ELSE IF "message" \in DOMAIN result THEN Get(result.message, "content", <<>>)
    ELSE <<>>

-----------------------------------------------------------------------------
(* State machine *)

Init ==
    /\ secrets \in SecretConfigs
    /\ initialised = FALSE
    /\ messages = <<>>
    /\ pc = "start"
    /\ screen = <<>>
    /\ requests = <<>>
    /\ reply = NoReply
    /\ outcome = "none"
    /\ answer_text = <<>>
    /\ before = <<>>
    /\ served = <<>>
    /\ failed = {}

\* A script run that dies at Session.create(): nothing below line 42 runs.
RunAborted ==
    /\ pc \in {"start", "aborted"}
    /\ SessionCreateRaises(secrets)
    /\ pc' = "aborted"
    /\ screen' = <<>>
    /\ UNCHANGED <<secrets, initialised, messages, requests, reply, outcome,
                   answer_text, before, served, failed>>

\* A script run without a prompt: page load, reload, or a widget event.
RunNoPrompt ==
    /\ pc \in {"start", "idle"}
    /\ ~SessionCreateRaises(secrets)
    /\ initialised' = TRUE
    /\ messages' = InitMessages(initialised, messages)
    /\ screen' = Replay(messages')
    /\ pc' = "idle"
    /\ reply' = NoReply
    /\ outcome' = "none"
    /\ answer_text' = <<>>
    /\ UNCHANGED <<secrets, requests, before, served, failed>>

\* A script run with a prompt, up to the moment the request is on the wire.
Submit(prompt) ==
    /\ pc = "idle"
    /\ ~SessionCreateRaises(secrets)
    /\ Len(requests) < MaxSubmits
    /\ LET hist == InitMessages(initialised, messages)
       IN  /\ before' = hist
           /\ messages' = Append(hist, UserMsg(prompt))
           /\ screen' = Replay(hist) \o <<Bubble("user", <<Part("markdown", prompt, 0)>>)>>
    /\ initialised' = TRUE
    /\ requests' = SendRequest(requests, messages')
    /\ pc' = "waiting"
    /\ reply' = NoReply
    /\ outcome' = "none"
    /\ answer_text' = <<>>
    /\ UNCHANGED <<secrets, served, failed>>

\* The rest of that script run: the reply arrives and is handled.
Receive(r) ==
    /\ pc = "waiting"
    /\ LET h == Handle(r)
       IN  /\ outcome' = h.outcome
           /\ answer_text' = h.text
           /\ screen' = Append(screen, Bubble("analyst", h.parts))
           /\ messages' = IF h.saved
                           THEN SaveAnalystMsg(messages, r.body)
                           ELSE OnFailure(messages)
           /\ served' = IF h.saved
                         THEN Append(served, EmittedContent(r.body))
                         ELSE served
           /\ failed' = IF h.saved THEN failed ELSE failed \cup {Len(messages)}
    /\ reply' = r
    /\ pc' = "idle"
    /\ UNCHANGED <<secrets, initialised, requests, before>>

Next ==
    \/ RunAborted
    \/ RunNoPrompt
    \/ \E prompt \in Prompts : Submit(prompt)
    \/ \E r \in Replies(TurnContents) : Receive(r)

Spec == Init /\ [][Next]_vars

\* The reply handler alone, over every content sequence up to MaxItems:
\* a first submission is on the wire and its reply arrives.
InitParse ==
    /\ secrets = OptionalKeys
    /\ initialised = TRUE
    /\ \E prompt \in Prompts :
          /\ messages = <<UserMsg(prompt)>>
          /\ screen = <<Bubble("user", <<Part("markdown", prompt, 0)>>)>>
          /\ requests = SendRequest(<<>>, <<UserMsg(prompt)>>)
    /\ pc = "waiting"
    /\ reply = NoReply
    /\ outcome = "none"
    /\ answer_text = <<>>
    /\ before = <<>>
    /\ served = <<>>
    /\ failed = {}

NextParse == \E r \in Replies(Contents) : Receive(r)

SpecParse == InitParse /\ [][NextParse]_vars

-----------------------------------------------------------------------------
(* Vocabulary of the properties *)

HasPart(bubble, kinds) ==
    \E j \in 1..Len(bubble.parts) : bubble.parts[j].kind \in kinds

IsTextItem(item) == "type" \in DOMAIN item /\ item.type = "text"

HasTextItem(content) == \E i \in 1..Len(content) : IsTextItem(content[i])

AllTyped(content) == \A i \in 1..Len(content) : "type" \in DOMAIN content[i]

\* the text payloads of a content sequence, in order
TextPayloads(content) ==
    LET texts == SelectSeq(content, IsTextItem)
    IN  [i \in 1..Len(texts) |-> texts[i].text]

\* every payload followed by a line break
RECURSIVE Lines(_)
Lines(ts) == IF ts = <<>> THEN <<>> ELSE Head(ts) \o <<NL>> \o Lines(Tail(ts))

IsAnalyst(m) == m.role = "analyst"
IsUser(m) == m.role = "user"

AnalystContents(msgs) ==
    LET turns == SelectSeq(msgs, IsAnalyst)
    IN  [i \in 1..Len(turns) |-> turns[i].content]

UserTurns(msgs) == Len(SelectSeq(msgs, IsUser))

Answered == pc = "idle" /\ reply.kind # "none"
RoundTripFailed == Answered /\ outcome \in {"http_error", "exception"}
Parsed == Answered /\ outcome = "ok"

ShapeA(body) == "messages" \in DOMAIN body /\ "message" \notin DOMAIN body
ShapeB(body) == "message" \in DOMAIN body
ErrorAlone(body) ==
    "error" \in DOMAIN body /\ DOMAIN body \cap {"message", "messages"} = {}

-----------------------------------------------------------------------------
(* C1 *)

\* C1: after a submission whose round trip failed (HTTP error status, network
\* failure, or an exception while the reply is handled) the history is the
\* history before the submission plus the one user turn, and the analyst
\* bubble shows a failure message, with the status code for an HTTP failure.
C1_FailedRoundTripKeepsUserTurn ==
    RoundTripFailed =>
        /\ Len(screen) >= 2
        /\ messages = Append(before, UserMsg(screen[Len(screen) - 1].parts[1].text))
        /\ Last(screen).role = "analyst"
        /\ HasPart(Last(screen), {"error_http", "error_unexpected"})
        /\ outcome = "http_error" =>
              \E j \in 1..Len(Last(screen).parts) :
                  /\ Last(screen).parts[j].kind = "error_http"
                  /\ Last(screen).parts[j].status = reply.status

C1_Witness ==
    /\ RoundTripFailed
    /\ outcome = "http_error"
    /\ reply.status = 500
    /\ Len(before) = 2
    /\ Len(messages) = 3

-----------------------------------------------------------------------------
(* C2 *)

\* C2: the history only grows: in every step the old history is a prefix of
\* the new one, and once the session has a history it keeps having one.
C2_AppendOnly ==
    [][IsPrefix(messages, messages') /\ (initialised => initialised')]_vars

C2_Witness ==
    /\ pc = "idle"
    /\ reply.kind = "none"
    /\ Len(requests) = 2
    /\ Len(messages) = 4

-----------------------------------------------------------------------------
(* C3 *)

\* C3: every request carries the history in order, and each analyst turn in
\* it carries exactly the content items the service emitted in the reply
\* that produced the turn, whatever the shape of that reply.
C3_ReplayEchoesEmitted ==
    \A n \in 1..Len(requests) :
        LET ms == requests[n].messages
            echoed == AnalystContents(ms)
        IN  /\ IsPrefix(ms, messages)
            /\ echoed = SubSeq(served, 1, Len(echoed))

-----------------------------------------------------------------------------
(* C4 *)

\* C4: for a valid shape-(a) reply, answer_text is the text payloads of the
\* reply in order, each on its line.
C4_ShapeATextJoined ==
    (Parsed /\ ShapeA(reply.body) /\ AllTyped(EmittedContent(reply.body))) =>
        answer_text = Lines(TextPayloads(EmittedContent(reply.body)))

-----------------------------------------------------------------------------
(* C5 *)

\* C5: a reply with HTTP success that holds an error object and neither
\* message nor messages is handled without an exception: the error message is
\* shown, answer_text is empty, the turn is stored, and the failure is shown
\* neither as an HTTP error nor as an unexpected error.
C5_ErrorOnlyHandled ==
    (Answered /\ reply.kind = "http" /\ reply.json /\ ErrorAlone(reply.body)) =>
        /\ outcome = "ok"
        /\ answer_text = <<>>
        /\ \E j \in 1..Len(Last(screen).parts) :
              /\ Last(screen).parts[j].kind = "error_app"
              /\ Last(screen).parts[j].text
                    = Get(reply.body.error, "message", UnknownError)
        /\ ~HasPart(Last(screen), {"error_http", "error_unexpected"})
        /\ Last(messages).role = "analyst"

C5_Witness ==
    /\ Answered
    /\ reply.json
    /\ ErrorAlone(reply.body)
    /\ "message" \in DOMAIN reply.body.error
    /\ HasPart(Last(screen), {"error_app"})

-----------------------------------------------------------------------------
(* C6 *)

\* C6: every bubble on the screen that shows an analyst turn without a text
\* item holds the "no narrative" placeholder.
C6_PlaceholderShown ==
    \A i \in 1..Len(screen) :
        (/\ i <= Len(messages)
         /\ IsAnalyst(messages[i])
         /\ ~HasTextItem(messages[i].content))
            => HasPart(screen[i], {"warning"})

-----------------------------------------------------------------------------
(* C7 *)

\* C7: with any of the optional connection parameters absent, no script run
\* dies at startup.
C7_StartupSurvivesMissingCreds ==
    secrets # OptionalKeys => pc # "aborted"

-----------------------------------------------------------------------------
(* C8 *)

\* C8: there are exactly as many requests as user turns, and the n-th request
\* carries the history up to and including the n-th user turn, which is its
\* last element: one attempt per submission, made after the append, and no
\* attempt without a submission.
C8_OneRequestPerSubmission ==
    /\ Len(requests) = UserTurns(messages)
    /\ \A n \in 1..Len(requests) :
          LET ms == requests[n].messages
          IN  /\ IsPrefix(ms, messages)
              /\ ms # <<>>
              /\ IsUser(Last(ms))
              /\ UserTurns(ms) = n

C8_Witness ==
    /\ RoundTripFailed
    /\ Len(requests) = 2
    /\ failed = {1, 2}

-----------------------------------------------------------------------------
(* C9 *)

\* C9: for a shape-(b) reply, answer_text is the text payloads of the text
\* items, in the order received, each followed by a line break, with the
\* other items skipped.
C9_ShapeBTextLines ==
    (Parsed /\ ShapeB(reply.body)) =>
        answer_text = Lines(TextPayloads(reply.body.message.content))

C9_Witness ==
    /\ Parsed
    /\ ShapeB(reply.body)
    /\ reply.body.message.content
          = <<TextItem(<<"a">>), SqlItem(<<"s">>), TextItem(<<"b">>)>>
    /\ answer_text = <<"a", NL, "b", NL>>

-----------------------------------------------------------------------------
(* C10 *)

Alternates(ms) == \A i \in 1..Len(ms) - 1 : ms[i].role # ms[i + 1].role

\* C10 as stated: every payload alternates roles strictly, from a user turn
\* to the new user turn.
C10_StrictAlternation ==
    \A n \in 1..Len(requests) :
        LET ms == requests[n].messages
        IN  IsUser(ms[1]) /\ IsUser(Last(ms)) /\ Alternates(ms)

\* C10 as amended: every payload begins with a user turn, ends with the new
\* user turn and never holds two analyst turns in a row; two user turns are
\* in a row exactly where the round trip of the first of them failed.
C10_AlternationUpToFailures ==
    \A n \in 1..Len(requests) :
        LET ms == requests[n].messages
        IN  /\ IsUser(ms[1])
            /\ IsUser(Last(ms))
            /\ \A i \in 1..Len(ms) - 1 :
                  /\ ~(IsAnalyst(ms[i]) /\ IsAnalyst(ms[i + 1]))
                  /\ (IsUser(ms[i]) /\ IsUser(ms[i + 1])) <=> i \in failed

C10_Witness ==
    /\ pc = "waiting"
    /\ Len(requests) = 2
    /\ failed = {1}
    /\ Last(requests).messages = <<UserMsg(<<"p">>), UserMsg(<<"q">>)>>

====
